---- MODULE Spec2Model ----
(***************************************************************************)
(* igc-tool: flight statistics (package flight), landing-site resolution   *)
(* (package sites) and logbook aggregation (package logbook).              *)
(*                                                                         *)
(* Numeric conventions of the model                                        *)
(*   - time.Time / time.Duration are integers in milliseconds;             *)
(*   - latitude and longitude are integers in 1e-4 degree;                 *)
(*   - BRecord.AltWGS84 (a float64) is an integer in decimetres, so that   *)
(*     the int(...) conversion of the code truncates;                      *)
(*   - float64 speeds are exact rationals <<numerator, denominator>>,      *)
(*     denominator > 0, in lowest terms;                                   *)
(*   - Go strings are sequences of one-character strings.                  *)
(***************************************************************************)
EXTENDS Integers, Sequences, FiniteSets, TLC

VARIABLES
    pc,            \* position of the run: "input" while data is gathered, "done" after the operation
    fixes,         \* Flight.Fixes
    speedWindow,   \* the speedWindow argument of the last GetStatistics call
    stats,         \* the Statistics returned by GetStatistics
    sites,         \* Collection.Sites
    query,         \* the (lat, lon) argument of the last FindLandingSite call
    label,         \* the string returned by FindLandingSite
    flights,       \* the []*Data handed to CreateTemplateData (allFlights)
    templateData,  \* the TemplateData returned by CreateTemplateData
    opts,          \* the unit fields of logbook.Options
    converted,     \* the value handed to package units and what its functions returned
    sitesFile,     \* the --sites filename and what sites.LoadLandingSites returns for it
    landingSites,  \* the *sites.Collection returned by LoadLandingSitesIfSpecified
    created,       \* the *Data returned by the last CreateData call
    files,         \* igcFiles: what parser.ParseIGCFile returns for each discovered file
    next,          \* the number of files the loop of the logbook command has dealt with
    processedCount,\* processedCount of the logbook command
    aggregations,  \* how many times the command has called CreateTemplateData
    exitCode       \* the exit status of the command, -1 while it runs

vars == <<pc, fixes, speedWindow, stats, sites, query, label, flights, templateData,
          opts, converted, sitesFile, landingSites, created,
          files, next, processedCount, aggregations, exitCode>>

unitVars == <<opts, converted>>
createVars == <<sitesFile, landingSites, created>>
runVars == <<files, next, processedCount, aggregations, exitCode>>

(***************************************************************************)
(* Bounds of the model                                                     *)
(***************************************************************************)
MaxFixes == 3
MaxWindowFixes == 7
MaxSites == 2
MaxFlights == 3
MaxFiles == 3
MaxFrame == 2

(***************************************************************************)
(* Integer helpers with Go's semantics                                     *)
(***************************************************************************)
Abs(x) == IF x < 0 THEN -x ELSE x

\* Go's integer division truncates toward zero
GoDiv(a, b) == IF (a >= 0) = (b > 0) THEN Abs(a) \div Abs(b) ELSE -(Abs(a) \div Abs(b))

\* Go's % takes the sign of the dividend
GoMod(a, b) == a - b * GoDiv(a, b)

RECURSIVE GCD(_, _)
GCD(a, b) == IF b = 0 THEN a ELSE GCD(b, a % b)

\* float64 values as exact rationals
Rat(n, d) ==
    LET g == GCD(Abs(n), d)
    IN  IF n = 0 THEN <<0, 1>> ELSE <<n \div g, d \div g>>

RatZero == <<0, 1>>
RatLess(a, b) == a[1] * b[2] < b[1] * a[2]
RatLeq(a, b) == a[1] * b[2] <= b[1] * a[2]
RatAbs(a) == <<Abs(a[1]), a[2]>>

(***************************************************************************)
(* time constants, in milliseconds                                         *)
(***************************************************************************)
Second == 1000
Minute == 60000
Hour == 3600000

(***************************************************************************)
(* package flight                                                          *)
(***************************************************************************)
MinTimeDiffSeconds == 1

\* The coordinates the model draws positions from (1e-4 degree).
P0 == <<458140, 62460>>
P1 == <<458150, 62460>>
P2 == <<458168, 62460>>
P3 == <<458200, 62460>>
PFar == <<460000, 70000>>
PNeg == <<-458141, -62467>>

\* The haversine formula evaluated on the model's coordinates, in metres
\* (rounded to the metre).
HaversineTable ==
    [a \in {P0, P1, P2, P3, PFar, PNeg}, b \in {P0, P1, P2, P3, PFar, PNeg} |->
        CASE a = b -> 0
          [] {a, b} = {P0, P1} -> 111
          [] {a, b} = {P0, P2} -> 311
          [] {a, b} = {P0, P3} -> 667
          [] {a, b} = {P0, PFar} -> 61896
          [] {a, b} = {P0, PNeg} -> 10261901
          [] {a, b} = {P1, P2} -> 200
          [] {a, b} = {P1, P3} -> 556
          [] {a, b} = {P1, PFar} -> 61858
          [] {a, b} = {P1, PNeg} -> 10262011
          [] {a, b} = {P2, P3} -> 356
          [] {a, b} = {P2, PFar} -> 61791
          [] {a, b} = {P2, PNeg} -> 10262209
          [] {a, b} = {P3, PFar} -> 61673
          [] {a, b} = {P3, PNeg} -> 10262561
          [] {a, b} = {PFar, PNeg} -> 10291397]

\* variant: coincident points come out one metre apart
HaversineDistanceNoisy(lat1, lon1, lat2, lon2) ==
    IF <<lat1, lon1>> = <<lat2, lon2>> THEN 1
    ELSE HaversineTable[<<lat1, lon1>>, <<lat2, lon2>>]

HaversineDistance(lat1, lon1, lat2, lon2) ==
    HaversineTable[<<lat1, lon1>>, <<lat2, lon2>>]

\* variant: the conversion rounds down instead of toward zero
IntAltFloor(alt) == alt \div 10

\* int(fix.AltWGS84): float64 to int truncates toward zero
IntAlt(alt) == GoDiv(alt, 10)

ZeroStatistics ==
    [MaxAltitude |-> 0, MinAltitude |-> 0, MaxGroundSpeed |-> RatZero,
     MaxClimbRate |-> RatZero, MaxDescentRate |-> RatZero, FlightDuration |-> 0]

RECURSIVE MaxAltLoop(_, _, _)
MaxAltLoop(f, k, maxAlt) ==
    IF k > Len(f) THEN maxAlt
    ELSE MaxAltLoop(f, k + 1,
                    IF IntAlt(f[k].AltWGS84) > maxAlt THEN IntAlt(f[k].AltWGS84) ELSE maxAlt)

\* variant: the running maximum starts at 0 instead of the first fix
CalculateMaxAltitudeFromZero(f) ==
    IF Len(f) = 0 THEN 0 ELSE MaxAltLoop(f, 1, 0)

CalculateMaxAltitude(f) ==
    IF Len(f) = 0 THEN 0 ELSE MaxAltLoop(f, 1, IntAlt(f[1].AltWGS84))

RECURSIVE MinAltLoop(_, _, _)
MinAltLoop(f, k, minAlt) ==
    IF k > Len(f) THEN minAlt
    ELSE MinAltLoop(f, k + 1,
                    IF IntAlt(f[k].AltWGS84) < minAlt THEN IntAlt(f[k].AltWGS84) ELSE minAlt)

\* variant: no empty-track guard, the scan starts from a large sentinel
CalculateMinAltitudeSentinel(f) == MinAltLoop(f, 1, 99999)

CalculateMinAltitude(f) ==
    IF Len(f) = 0 THEN 0 ELSE MinAltLoop(f, 1, IntAlt(f[1].AltWGS84))

\* Fix i of the code (0-based) is f[i + 1].
Fix(f, i) == f[i + 1]

\* timeDiff of the pair (i-1, i), in milliseconds
TimeDiff(f, i) == Fix(f, i).Time - Fix(f, i - 1).Time

\* speedKMH of the pair (i-1, i) before windowing: distance / timeDiff * 3.6
InstantSpeedKMH(f, i) ==
    Rat(HaversineDistance(Fix(f, i - 1).Lat, Fix(f, i - 1).Lon, Fix(f, i).Lat, Fix(f, i).Lon) * 3600,
        TimeDiff(f, i))

\* variant: the wider-interval speed replaces the instantaneous one
\* unconditionally
RECURSIVE WindowSearchAlways(_, _, _, _, _)
WindowSearchAlways(f, w, i, j, speedKMH) ==
    IF j < 0 THEN speedKMH
    ELSE LET windowTimeDiff == f[i + 1].Time - f[j + 1].Time
         IN  IF windowTimeDiff >= w
             THEN Rat(HaversineDistance(f[j + 1].Lat, f[j + 1].Lon,
                                        f[i + 1].Lat, f[i + 1].Lon) * 3600,
                      windowTimeDiff)
             ELSE WindowSearchAlways(f, w, i, j - 1, speedKMH)

\* variant: the search does not stop at the first fix that reaches the window
RECURSIVE WindowSearchNoBreak(_, _, _, _, _)
WindowSearchNoBreak(f, w, i, j, speedKMH) ==
    IF j < 0 THEN speedKMH
    ELSE LET windowTimeDiff == f[i + 1].Time - f[j + 1].Time
             windowSpeedKMH ==
                 Rat(HaversineDistance(f[j + 1].Lat, f[j + 1].Lon,
                                       f[i + 1].Lat, f[i + 1].Lon) * 3600,
                     windowTimeDiff)
         IN  IF windowTimeDiff >= w
             THEN WindowSearchNoBreak(f, w, i, j - 1,
                      IF RatLess(windowSpeedKMH, speedKMH) THEN windowSpeedKMH ELSE speedKMH)
             ELSE WindowSearchNoBreak(f, w, i, j - 1, speedKMH)

\* the backward search  for j := i - 1; j >= 0; j--
RECURSIVE WindowSearch(_, _, _, _, _)
WindowSearch(f, w, i, j, speedKMH) ==
    IF j < 0 THEN speedKMH
    ELSE LET windowTimeDiff == Fix(f, i).Time - Fix(f, j).Time
         IN  IF windowTimeDiff >= w
             THEN LET windowSpeedKMH ==
                          Rat(HaversineDistance(Fix(f, j).Lat, Fix(f, j).Lon,
                                                Fix(f, i).Lat, Fix(f, i).Lon) * 3600,
                              windowTimeDiff)
                  IN  IF RatLess(windowSpeedKMH, speedKMH) THEN windowSpeedKMH ELSE speedKMH
             ELSE WindowSearch(f, w, i, j - 1, speedKMH)

\* variant: the block is entered one fix earlier
WindowAppliesFromFour(f, w, i) == TimeDiff(f, i) < w /\ i >= 4

\* the condition under which the windowing block is entered
WindowApplies(f, w, i) == TimeDiff(f, i) < w /\ i >= 5

\* speedKMH of the pair (i-1, i) as compared with maxSpeed (timeDiff >= 1 s)
PairSpeedKMH(f, w, i) ==
    IF WindowApplies(f, w, i)
    THEN WindowSearch(f, w, i, i - 1, InstantSpeedKMH(f, i))
    ELSE InstantSpeedKMH(f, i)

\* variant: only pairs that are not later than their predecessor are skipped
PairSkippedNonPositive(f, i) == TimeDiff(f, i) <= 0

\* the pair (i-1, i) is skipped by  if timeDiff < MinTimeDiffSeconds { continue }
PairSkipped(f, i) == TimeDiff(f, i) < MinTimeDiffSeconds * Second

RECURSIVE SpeedLoop(_, _, _, _)
SpeedLoop(f, w, i, maxSpeed) ==
    IF i >= Len(f) THEN maxSpeed
    ELSE IF PairSkipped(f, i) THEN SpeedLoop(f, w, i + 1, maxSpeed)
    ELSE LET speedKMH == PairSpeedKMH(f, w, i)
         IN  SpeedLoop(f, w, i + 1, IF RatLess(maxSpeed, speedKMH) THEN speedKMH ELSE maxSpeed)

CalculateMaxGroundSpeed(f, w) ==
    IF Len(f) < 2 THEN RatZero ELSE SpeedLoop(f, w, 1, RatZero)

\* variant: the altitudes are converted to whole metres before subtracting
VerticalSpeedTruncated(f, i) ==
    Rat((IntAlt(Fix(f, i).AltWGS84) - IntAlt(Fix(f, i - 1).AltWGS84)) * 1000, TimeDiff(f, i))

\* altDiff / timeDiff of the pair (i-1, i), in m/s
VerticalSpeed(f, i) ==
    Rat((Fix(f, i).AltWGS84 - Fix(f, i - 1).AltWGS84) * 100, TimeDiff(f, i))

RECURSIVE VerticalLoop(_, _, _, _)
VerticalLoop(f, i, maxVerticalSpeed, minVerticalSpeed) ==
    IF i >= Len(f) THEN <<maxVerticalSpeed, minVerticalSpeed>>
    ELSE IF PairSkipped(f, i) THEN VerticalLoop(f, i + 1, maxVerticalSpeed, minVerticalSpeed)
    ELSE LET verticalSpeed == VerticalSpeed(f, i)
         IN  VerticalLoop(f, i + 1,
                 IF RatLess(maxVerticalSpeed, verticalSpeed) THEN verticalSpeed ELSE maxVerticalSpeed,
                 IF RatLess(verticalSpeed, minVerticalSpeed) THEN verticalSpeed ELSE minVerticalSpeed)

CalculateVerticalSpeeds(f) ==
    IF Len(f) < 2 THEN <<RatZero, RatZero>> ELSE VerticalLoop(f, 1, RatZero, RatZero)

\* variant: the duration ends at the second fix
FlightDurationToSecond(f) ==
    IF Len(f) >= 2 THEN f[2].Time - f[1].Time ELSE 0

\* duration = f.Fixes[len(f.Fixes)-1].Time.Sub(f.Fixes[0].Time)
FlightDurationOf(f) ==
    IF Len(f) >= 2 THEN f[Len(f)].Time - f[1].Time ELSE 0

StatisticsOf(f, w) ==
    [MaxAltitude |-> CalculateMaxAltitude(f),
     MinAltitude |-> CalculateMinAltitude(f),
     MaxGroundSpeed |-> CalculateMaxGroundSpeed(f, w),
     MaxClimbRate |-> CalculateVerticalSpeeds(f)[1],
     MaxDescentRate |-> RatAbs(CalculateVerticalSpeeds(f)[2]),
     FlightDuration |-> FlightDurationOf(f)]

(***************************************************************************)
(* package utils                                                           *)
(***************************************************************************)
DigitChars == <<"0", "1", "2", "3", "4", "5", "6", "7", "8", "9">>

RECURSIVE NatToStr(_)
NatToStr(n) ==
    IF n < 10 THEN <<DigitChars[n + 1]>>
    ELSE NatToStr(n \div 10) \o <<DigitChars[(n % 10) + 1]>>

\* fmt's %d
IntToStr(n) == IF n < 0 THEN <<"-">> \o NatToStr(-n) ELSE NatToStr(n)

\* fmt's %.3f of a coordinate held in 1e-4 degree: the value rounded to the
\* nearest thousandth, the sign kept (the model's coordinates have no ties)
Fixed3(x) ==
    LET m == (Abs(x) + 5) \div 10
        frac == m % 1000
    IN  (IF x < 0 THEN <<"-">> ELSE <<>>)
        \o NatToStr(m \div 1000) \o <<".">>
        \o <<DigitChars[(frac \div 100) + 1], DigitChars[((frac \div 10) % 10) + 1],
             DigitChars[(frac % 10) + 1]>>

\* variant: longitude first
FormatCoordinatesLonLat(lat, lon) == Fixed3(lon) \o <<",">> \o Fixed3(lat)

FormatCoordinates(lat, lon) == Fixed3(lat) \o <<",">> \o Fixed3(lon)

\* variant: the minutes are rounded to the nearest one
FormatDurationRounded(d) ==
    IntToStr(GoDiv(d + 30 * Second, Hour)) \o <<"h">>
        \o IntToStr(GoMod(GoDiv(d + 30 * Second, Minute), 60)) \o <<"m">>

\* hours := int(d.Hours()); minutes := int(d.Minutes()) % 60
FormatDuration(d) ==
    IntToStr(GoDiv(d, Hour)) \o <<"h">> \o IntToStr(GoMod(GoDiv(d, Minute), 60)) \o <<"m">>

(***************************************************************************)
(* package sites                                                           *)
(***************************************************************************)
\* variant: a point exactly on the radius is outside
SiteMatchesStrict(site, lat, lon) ==
    HaversineDistance(lat, lon, site.Center[2], site.Center[1]) < site.Radius

\* the loop body's test, for one site
SiteMatches(site, lat, lon) ==
    HaversineDistance(lat, lon, site.Center[2], site.Center[1]) <= site.Radius

RECURSIVE FindLoop(_, _, _, _)
FindLoop(c, k, lat, lon) ==
    IF k > Len(c) THEN FormatCoordinates(lat, lon)
    ELSE IF SiteMatches(c[k], lat, lon) THEN c[k].Name
    ELSE FindLoop(c, k + 1, lat, lon)

FindLandingSite(c, lat, lon) == FindLoop(c, 1, lat, lon)

(***************************************************************************)
(* package logbook: parsing the display strings back                       *)
(***************************************************************************)
IsDigit(c) == c \in {"0", "1", "2", "3", "4", "5", "6", "7", "8", "9"}
DigitVal(c) == CHOOSE d \in 0..9 : DigitChars[d + 1] = c

RECURSIVE SkipSpace(_, _)
SkipSpace(s, p) == IF p <= Len(s) /\ s[p] = " " THEN SkipSpace(s, p + 1) ELSE p

\* the digits from position p on: <<value, position after the last digit>>
RECURSIVE ScanDigits(_, _, _)
ScanDigits(s, p, acc) ==
    IF p <= Len(s) /\ IsDigit(s[p]) THEN ScanDigits(s, p + 1, acc * 10 + DigitVal(s[p]))
    ELSE <<acc, p>>

\* Sscanf's %d: leading spaces, an optional sign, at least one digit
ScanInt(s, p) ==
    LET q == SkipSpace(s, p)
        signed == q <= Len(s) /\ s[q] \in {"+", "-"}
        r == IF signed THEN q + 1 ELSE q
        digits == ScanDigits(s, r, 0)
    IN  IF r <= Len(s) /\ IsDigit(s[r])
        THEN [ok |-> TRUE,
              val |-> IF signed /\ s[q] = "-" THEN -digits[1] ELSE digits[1],
              next |-> digits[2]]
        ELSE [ok |-> FALSE, val |-> 0, next |-> r]

\* a literal character of the format must be the next character of the input
Literal(s, p, c) == p <= Len(s) /\ s[p] = c

\* fmt.Sscanf(durationStr, "%dh%dm", &hours, &minutes); text after the final
\* "m" is not an error
parseDuration(durationStr) ==
    LET hours == ScanInt(durationStr, 1)
        minutes == ScanInt(durationStr, hours.next + 1)
    IN  IF /\ hours.ok
           /\ Literal(durationStr, hours.next, "h")
           /\ minutes.ok
           /\ Literal(durationStr, minutes.next, "m")
        THEN [err |-> FALSE, d |-> hours.val * Hour + minutes.val * Minute]
        ELSE [err |-> TRUE, d |-> 0]

\* time.Time restricted to its calendar date
ZeroTime == [year |-> 1, month |-> 1, day |-> 1]

IsLeap(y) == (y % 4 = 0 /\ y % 100 # 0) \/ y % 400 = 0

DaysIn(m, y) ==
    IF m = 2 THEN (IF IsLeap(y) THEN 29 ELSE 28)
    ELSE IF m \in {4, 6, 9, 11} THEN 30 ELSE 31

\* time.Parse("2006-01-02", s): four, two and two digits between dashes, a
\* month and a day in range, nothing after
ParseDate(s) ==
    IF /\ Len(s) = 10
       /\ \A k \in {1, 2, 3, 4, 6, 7, 9, 10} : IsDigit(s[k])
       /\ s[5] = "-" /\ s[8] = "-"
    THEN LET y == ScanDigits(s, 1, 0)[1]
             m == ScanDigits(s, 6, 0)[1]
             d == ScanDigits(s, 9, 0)[1]
         IN  IF m \in 1..12 /\ d >= 1 /\ d <= DaysIn(m, y)
             THEN [err |-> FALSE, t |-> [year |-> y, month |-> m, day |-> d]]
             ELSE [err |-> TRUE, t |-> ZeroTime]
    ELSE [err |-> TRUE, t |-> ZeroTime]

Before(a, b) ==
    \/ a.year < b.year
    \/ a.year = b.year /\ a.month < b.month
    \/ a.year = b.year /\ a.month = b.month /\ a.day < b.day

After(a, b) == Before(b, a)

Pad(n, width) ==
    LET str == NatToStr(n)
    IN  [k \in 1..(width - Len(str)) |-> "0"] \o str

\* t.Format("2006-01-02")
FormatDate(t) == Pad(t.year, 4) \o <<"-">> \o Pad(t.month, 2) \o <<"-">> \o Pad(t.day, 2)

(***************************************************************************)
(* package logbook: CreateTemplateData                                     *)
(***************************************************************************)
\* the accumulators declared before the loop
AggStart ==
    [totalDuration |-> 0, totalAltitude |-> 0, maxAltitude |-> 0,
     maxDuration |-> 0, minDuration |-> Hour * 24,
     pilots |-> {}, gliders |-> {}, sites |-> {},
     firstDate |-> ZeroTime, lastDate |-> ZeroTime]

\* variant: the duration is assigned to the total instead of added
TotalDurationAssign(total, dur) == IF dur.err THEN total ELSE dur.d

\* if err == nil { totalDuration += duration }
TotalDurationStep(total, dur) == IF dur.err THEN total ELSE total + dur.d

\* variant: the error of parseDuration is not looked at
MinDurationStepUnchecked(min, dur) == IF dur.d < min THEN dur.d ELSE min

\* if err == nil { if duration < minDuration { minDuration = duration } }
MinDurationStep(min, dur) == IF ~dur.err /\ dur.d < min THEN dur.d ELSE min

\* variant: the empty string is recorded like any other key
AddKeyAlways(keys, key) == keys \cup {key}

\* if key != "" { aMap[key] = true }
AddKey(keys, key) == IF key # <<>> THEN keys \cup {key} ELSE keys

\* one iteration of  for i, flight := range flights
AggStep(acc, i, flight) ==
    LET dur == parseDuration(flight.FlightDuration)
        date == ParseDate(flight.Date)
    IN  [totalDuration |-> TotalDurationStep(acc.totalDuration, dur),
         maxDuration |-> IF ~dur.err /\ dur.d > acc.maxDuration THEN dur.d ELSE acc.maxDuration,
         minDuration |-> MinDurationStep(acc.minDuration, dur),
         totalAltitude |-> acc.totalAltitude + flight.MaxAltitude,
         maxAltitude |-> IF flight.MaxAltitude > acc.maxAltitude
                         THEN flight.MaxAltitude ELSE acc.maxAltitude,
         pilots |-> AddKey(acc.pilots, flight.Pilot),
         gliders |-> AddKey(acc.gliders, flight.GliderType),
         sites |-> AddKey(acc.sites, flight.TakeoffSite),
         firstDate |-> IF ~date.err /\ (i = 0 \/ Before(date.t, acc.firstDate))
                       THEN date.t ELSE acc.firstDate,
         lastDate |-> IF ~date.err /\ (i = 0 \/ After(date.t, acc.lastDate))
                      THEN date.t ELSE acc.lastDate]

RECURSIVE AggLoop(_, _, _)
AggLoop(fl, k, acc) ==
    IF k > Len(fl) THEN acc ELSE AggLoop(fl, k + 1, AggStep(acc, k - 1, fl[k]))

\* if minDuration == time.Hour*24 { minDuration = 0 }
MinDurationResult(minDuration) == IF minDuration = Hour * 24 THEN 0 ELSE minDuration

\* the orders in which  for x := range aMap  may append the keys of a map
Orderings(S) ==
    {o \in [1..Cardinality(S) -> S] : \A x \in S : \E k \in 1..Cardinality(S) : o[k] = x}

EmptyTemplateData ==
    [Flights |-> <<>>, TotalTime |-> <<>>, TotalFlights |-> 0,
     FirstDate |-> <<>>, LastDate |-> <<>>,
     AvgFlightTime |-> <<>>, MaxFlightTime |-> <<>>, MinFlightTime |-> <<>>,
     MaxAltitude |-> 0, AvgMaxAltitude |-> 0,
     UniquePilots |-> <<>>, UniqueGliders |-> <<>>, UniqueSites |-> <<>>]

\* variant: the mean is taken over the durations that parsed
AvgFlightTimeOfParsed(totalDuration, fl) ==
    LET parsed == Cardinality({k \in 1..Len(fl) : ~parseDuration(fl[k].FlightDuration).err})
    IN  IF parsed = 0 THEN 0 ELSE GoDiv(totalDuration, parsed)

\* avgFlightTime := totalDuration / time.Duration(len(flights))
AvgFlightTimeOf(totalDuration, fl) == GoDiv(totalDuration, Len(fl))

\* variant: the quotient is rounded down
AvgMaxAltitudeFloor(totalAltitude, fl) == totalAltitude \div Len(fl)

\* avgMaxAltitude := totalAltitude / len(flights)
AvgMaxAltitudeOf(totalAltitude, fl) == GoDiv(totalAltitude, Len(fl))

\* variant: the two ends are rendered into each other's field
DateRangeSwapped(acc) ==
    [FirstDate |-> FormatDate(acc.lastDate), LastDate |-> FormatDate(acc.firstDate)]

\* FirstDate: firstDate.Format("2006-01-02"), LastDate: lastDate.Format("2006-01-02")
DateRangeOf(acc) ==
    [FirstDate |-> FormatDate(acc.firstDate), LastDate |-> FormatDate(acc.lastDate)]

\* variant: the early return renders the zero values instead of leaving the
\* strings blank
CreateTemplateDataRendered(fl, uniquePilots, uniqueGliders, uniqueSites) ==
    LET acc == AggLoop(fl, 1, AggStart)
    IN  [Flights |-> fl,
         TotalTime |-> FormatDuration(acc.totalDuration),
         TotalFlights |-> Len(fl),
         FirstDate |-> FormatDate(acc.firstDate),
         LastDate |-> FormatDate(acc.lastDate),
         AvgFlightTime |-> FormatDuration(IF Len(fl) = 0 THEN 0
                                          ELSE GoDiv(acc.totalDuration, Len(fl))),
         MaxFlightTime |-> FormatDuration(acc.maxDuration),
         MinFlightTime |-> FormatDuration(MinDurationResult(acc.minDuration)),
         MaxAltitude |-> acc.maxAltitude,
         AvgMaxAltitude |-> IF Len(fl) = 0 THEN 0 ELSE GoDiv(acc.totalAltitude, Len(fl)),
         UniquePilots |-> uniquePilots,
         UniqueGliders |-> uniqueGliders,
         UniqueSites |-> uniqueSites]

\* CreateTemplateData(flights, opts); the three last arguments are the orders
\* the map iterations produced
CreateTemplateData(fl, uniquePilots, uniqueGliders, uniqueSites) ==
    IF Len(fl) = 0 THEN EmptyTemplateData
    ELSE LET acc == AggLoop(fl, 1, AggStart)
             avgFlightTime == AvgFlightTimeOf(acc.totalDuration, fl)
             avgMaxAltitude == AvgMaxAltitudeOf(acc.totalAltitude, fl)
         IN  [Flights |-> fl,
              TotalTime |-> FormatDuration(acc.totalDuration),
              TotalFlights |-> Len(fl),
              FirstDate |-> DateRangeOf(acc).FirstDate,
              LastDate |-> DateRangeOf(acc).LastDate,
              AvgFlightTime |-> FormatDuration(avgFlightTime),
              MaxFlightTime |-> FormatDuration(acc.maxDuration),
              MinFlightTime |-> FormatDuration(MinDurationResult(acc.minDuration)),
              MaxAltitude |-> acc.maxAltitude,
              AvgMaxAltitude |-> avgMaxAltitude,
              UniquePilots |-> uniquePilots,
              UniqueGliders |-> uniqueGliders,
              UniqueSites |-> uniqueSites]

\* the key sets of the three maps after the loop
UniqueKeys(fl) ==
    LET acc == AggLoop(fl, 1, AggStart)
    IN  [pilots |-> IF Len(fl) = 0 THEN {} ELSE acc.pilots,
         gliders |-> IF Len(fl) = 0 THEN {} ELSE acc.gliders,
         sites |-> IF Len(fl) = 0 THEN {} ELSE acc.sites]

(***************************************************************************)
(* package units                                                           *)
(***************************************************************************)
AltitudeMeters == <<"m">>
AltitudeFeet == <<"f", "t">>
SpeedKmh == <<"k", "m", "h">>
SpeedMph == <<"m", "p", "h">>
SpeedKnots == <<"k", "t", "s">>
SpeedMs == <<"m", "s">>
ClimbMs == <<"m", "s">>
ClimbFpm == <<"f", "p", "m">>

\* the conversion factors 3.28084, 0.621371, 0.539957 and 3.6
MetersToFeet == Rat(328084, 100000)
KmhToMph == Rat(621371, 1000000)
KmhToKnots == Rat(539957, 1000000)
MsToKmh == Rat(36, 10)

RatMul(a, b) == Rat(a[1] * b[1], a[2] * b[2])
RatDiv(a, b) == Rat(a[1] * b[2], a[2] * b[1])

Altitude(meters, unit) ==
    IF unit = AltitudeFeet THEN RatMul(meters, MetersToFeet) ELSE meters

Speed(kmh, unit) ==
    CASE unit = SpeedMph -> RatMul(kmh, KmhToMph)
      [] unit = SpeedKnots -> RatMul(kmh, KmhToKnots)
      [] unit = SpeedMs -> RatDiv(kmh, MsToKmh)
      [] OTHER -> kmh

Climb(ms, unit) ==
    IF unit = ClimbFpm THEN RatMul(RatMul(ms, MetersToFeet), <<60, 1>>) ELSE ms

AltitudeSymbol(unit) ==
    IF unit = AltitudeFeet THEN <<"f", "t">> ELSE <<"m">>

\* variant: a unit without a case is returned as its own symbol
SpeedSymbolEcho(unit) ==
    CASE unit = SpeedMph -> <<"m", "p", "h">>
      [] unit = SpeedKnots -> <<"k", "t", "s">>
      [] unit = SpeedMs -> <<"m", "/", "s">>
      [] unit = SpeedKmh -> <<"k", "m", "/", "h">>
      [] OTHER -> unit

SpeedSymbol(unit) ==
    CASE unit = SpeedMph -> <<"m", "p", "h">>
      [] unit = SpeedKnots -> <<"k", "t", "s">>
      [] unit = SpeedMs -> <<"m", "/", "s">>
      [] OTHER -> <<"k", "m", "/", "h">>

ClimbSymbol(unit) ==
    IF unit = ClimbFpm THEN <<"f", "t", "/", "m", "i", "n">> ELSE <<"m", "/", "s">>

\* what the unit functions return for one value under the options o
ConvertedOf(value, o) ==
    [value |-> value,
     Altitude |-> Altitude(value, o.AltitudeUnit),
     Speed |-> Speed(value, o.SpeedUnit),
     Climb |-> Climb(value, o.ClimbUnit),
     AltitudeSymbol |-> AltitudeSymbol(o.AltitudeUnit),
     SpeedSymbol |-> SpeedSymbol(o.SpeedUnit),
     ClimbSymbol |-> ClimbSymbol(o.ClimbUnit)]

\* the defaults of the three unit options
DefaultOptions ==
    [AltitudeUnit |-> AltitudeMeters, SpeedUnit |-> SpeedKmh, ClimbUnit |-> ClimbMs]

(***************************************************************************)
(* package cli and package logbook: CreateData                             *)
(* A pointer is a sequence of length at most one: <<>> is nil.             *)
(***************************************************************************)
TimeFormat24h == <<"2", "4", "h">>
TimeFormatAMPM == <<"a", "m", "p", "m">>

\* t.Format("15:04:05") / t.Format("3:04:05 PM") of a time of day in
\* milliseconds since midnight
FormatTime(t, format) ==
    LET h == (t \div Hour) % 24
        rest == <<":">> \o Pad((t \div Minute) % 60, 2) \o <<":">> \o Pad((t \div Second) % 60, 2)
    IN  IF format = TimeFormatAMPM
        THEN NatToStr(IF h % 12 = 0 THEN 12 ELSE h % 12) \o rest
             \o (IF h >= 12 THEN <<" ", "P", "M">> ELSE <<" ", "A", "M">>)
        ELSE Pad(h, 2) \o rest

\* int(x) of a float64
TruncRat(r) == GoDiv(r[1], r[2])

\* math.Round(x): to the nearest integer, halves away from zero
RoundRat(r) ==
    LET q == (2 * Abs(r[1]) + r[2]) \div (2 * r[2])
    IN  IF r[1] < 0 THEN -q ELSE q

\* the three outcomes of sites.LoadLandingSites: an error, or a collection
LoadError == [err |-> TRUE, Sites |-> <<>>]
Loaded(rows) == [err |-> FALSE, Sites |-> rows]

\* variant: an empty collection is handed on as it is
LoadLandingSitesIfSpecifiedKeepEmpty(filename, loaded) ==
    IF filename = <<>> THEN <<>>
    ELSE IF loaded.err THEN <<>>
    ELSE <<[Sites |-> loaded.Sites]>>

\* LoadLandingSitesIfSpecified(filename); loaded is what sites.LoadLandingSites
\* returns for the file
LoadLandingSitesIfSpecified(filename, loaded) ==
    IF filename = <<>> THEN <<>>
    ELSE IF loaded.err THEN <<>>
    ELSE IF Len(loaded.Sites) = 0 THEN <<>>
    ELSE <<[Sites |-> loaded.Sites]>>

\* the site label of a fix: the coordinates, replaced by FindLandingSite when
\* opts.LandingSites != nil
SiteLabel(landing, fix) ==
    IF landing # <<>> THEN FindLandingSite(landing[1].Sites, fix.Lat, fix.Lon)
    ELSE FormatCoordinates(fix.Lat, fix.Lon)

\* variant: the guard also rejects a flight with a single fix
CreateDataGuardTwo(f) == Len(f.Fixes) < 2

\* if len(f.Fixes) == 0 { return nil }
CreateDataGuard(f) == Len(f.Fixes) = 0

\* CreateData(f, opts)
CreateData(f, o) ==
    IF CreateDataGuard(f) THEN <<>>
    ELSE LET takeoffFix == f.Fixes[1]
             landingFix == f.Fixes[Len(f.Fixes)]
             duration == landingFix.Time - takeoffFix.Time
             altitudeDiff == IntAlt(landingFix.AltWGS84) - IntAlt(takeoffFix.AltWGS84)
             st == StatisticsOf(f.Fixes, o.SpeedWindow)
         IN  <<[Date |-> FormatDate(f.Date),
                TakeoffLat |-> takeoffFix.Lat,
                TakeoffLon |-> takeoffFix.Lon,
                TakeoffPosition |-> FormatCoordinates(takeoffFix.Lat, takeoffFix.Lon),
                TakeoffSite |-> SiteLabel(o.LandingSites, takeoffFix),
                LandingLat |-> landingFix.Lat,
                LandingLon |-> landingFix.Lon,
                LandingPosition |-> FormatCoordinates(landingFix.Lat, landingFix.Lon),
                LandingSite |-> SiteLabel(o.LandingSites, landingFix),
                TakeoffAlt |-> TruncRat(Altitude(Rat(takeoffFix.AltWGS84, 10), o.AltitudeUnit)),
                LandingAlt |-> TruncRat(Altitude(Rat(landingFix.AltWGS84, 10), o.AltitudeUnit)),
                AltitudeDiff |-> TruncRat(Altitude(<<altitudeDiff, 1>>, o.AltitudeUnit)),
                MaxAltitude |-> TruncRat(Altitude(<<st.MaxAltitude, 1>>, o.AltitudeUnit)),
                MinAltitude |-> TruncRat(Altitude(<<st.MinAltitude, 1>>, o.AltitudeUnit)),
                MaxGroundSpeed |-> RoundRat(Speed(st.MaxGroundSpeed, o.SpeedUnit)),
                MaxClimbRate |-> RoundRat(Climb(st.MaxClimbRate, o.ClimbUnit)),
                MaxDescentRate |-> RoundRat(Climb(st.MaxDescentRate, o.ClimbUnit)),
                FlightDuration |-> FormatDuration(duration),
                TakeoffTime |-> FormatTime(takeoffFix.Time, o.TimeFormat),
                LandingTime |-> FormatTime(landingFix.Time, o.TimeFormat),
                Pilot |-> f.Pilot,
                GliderType |-> f.GliderType,
                Filename |-> o.Filename,
                AltitudeUnit |-> AltitudeSymbol(o.AltitudeUnit),
                SpeedUnit |-> SpeedSymbol(o.SpeedUnit),
                VerticalSpeedUnit |-> ClimbSymbol(o.ClimbUnit)]>>

(***************************************************************************)
(* Inputs of the model                                                     *)
(***************************************************************************)
\* fix positions, altitudes (decimetres) and time steps (milliseconds)
FixPoints == {P0, P1}
FixAlts == {-505, -5, 495}
FixSteps == {-1000, 0, 500, 1000, 10000}
Windows == {0, 5000}

\* long tracks for the smoothing window
WindowPoints == {P0, P1}
WindowSteps == {1000, 2000}
WindowAlts == {10000}
WindowWindows == {2000, 3000, 6000}

\* landing sites
NearSite == <<"N", "e", "a", "r">>
FarSite == <<"F", "a", "r">>
SiteNames == {NearSite, FarSite}
SiteCenters == {P0, P3, PFar}
SiteRadii == {0, 500, 1000}
QueryPoints == {P0, P3, PFar, PNeg}

\* FlightDuration strings: "1h0m", "2h30m", "25h30m", "-1h-30m", "1h30"
D1h0m == <<"1", "h", "0", "m">>
D2h30m == <<"2", "h", "3", "0", "m">>
D25h30m == <<"2", "5", "h", "3", "0", "m">>
DNeg1h30m == <<"-", "1", "h", "-", "3", "0", "m">>
DNoMinutes == <<"1", "h", "3", "0">>
DurationStrings == {D1h0m, D2h30m, D25h30m, DNeg1h30m, DNoMinutes}

\* Date strings: "2024-01-15", "2023-12-31", "2024-02-30"
Date20240115 == <<"2", "0", "2", "4", "-", "0", "1", "-", "1", "5">>
Date20231231 == <<"2", "0", "2", "3", "-", "1", "2", "-", "3", "1">>
Date20240230 == <<"2", "0", "2", "4", "-", "0", "2", "-", "3", "0">>

Alice == <<"A", "l">>
Bob == <<"B", "o">>
Glider == <<"X">>

\* the other fields of a summary the aggregation reads
DataProfiles ==
    {[Date |-> Date20240115, MaxAltitude |-> 1500, Pilot |-> Alice,
      GliderType |-> Glider, TakeoffSite |-> NearSite],
     [Date |-> Date20240230, MaxAltitude |-> -200, Pilot |-> <<>>,
      GliderType |-> <<>>, TakeoffSite |-> <<>>],
     [Date |-> Date20231231, MaxAltitude |-> 3001, Pilot |-> Bob,
      GliderType |-> Glider, TakeoffSite |-> FormatCoordinates(P0[1], P0[2])]}

DataOf(profile, duration) ==
    [Date |-> profile.Date, MaxAltitude |-> profile.MaxAltitude,
     FlightDuration |-> duration, Pilot |-> profile.Pilot,
     GliderType |-> profile.GliderType, TakeoffSite |-> profile.TakeoffSite]

\* MaxAltitude values of the summaries of an altitude batch, in metres
SummaryAltitudes == {-305, -200, 1500, 3001}

AltitudeData(alt) ==
    [Date |-> Date20240115, MaxAltitude |-> alt, FlightDuration |-> D1h0m,
     Pilot |-> Alice, GliderType |-> Glider, TakeoffSite |-> NearSite]

\* unit strings handed to package units, and the values converted
UnknownUnit == <<"u", "n", "k", "n", "o", "w", "n">>
UnitStrings ==
    {AltitudeMeters, AltitudeFeet, SpeedKmh, SpeedMph, SpeedKnots, SpeedMs, ClimbFpm,
     UnknownUnit, <<>>}
UnitValues == {<<-50, 1>>, <<0, 1>>, <<15, 2>>, <<100, 1>>}

\* flights summarized by CreateData: positions inside (P0) and outside (P3) the
\* site below, altitudes and time steps; the --sites file and its content
CreatePoints == {P0, P3}
CreateAlts == {-505, 495}
CreateSteps == {1000, 90000}
SitesFilename == <<"s", ".", "c", "s", "v">>
IGCFilename == <<"f", ".", "i", "g", "c">>
NearRow == [Name |-> NearSite, Center |-> <<P0[2], P0[1]>>, Radius |-> 500]
SitesFilenames == {<<>>, SitesFilename}
LoadOutcomes == {LoadError, Loaded(<<>>), Loaded(<<NearRow>>)}
FlightDate == [year |-> 2024, month |-> 1, day |-> 15]

\* the Flight the parser builds around the fixes
FlightOf(fx) == [Fixes |-> fx, Date |-> FlightDate, Pilot |-> Alice, GliderType |-> Glider]

\* logbook.Options as the logbook command fills it
OptionsOf(landing, o, filename) ==
    [LandingSites |-> landing, Filename |-> filename, SpeedWindow |-> 5000,
     AltitudeUnit |-> o.AltitudeUnit, SpeedUnit |-> o.SpeedUnit, ClimbUnit |-> o.ClimbUnit,
     TimeFormat |-> TimeFormat24h]

\* files of a logbook run: a file that does not parse, a file without B
\* records, a file with one B record, and files with two B records that are
\* a given time apart
RunDurations == {59999, 60000, 90000, 3599999, 5400000, 91800000}
RunFix(t) == [Lat |-> P0[1], Lon |-> P0[2], AltWGS84 |-> 495, Time |-> t]
RunFiles ==
    {[err |-> TRUE, Fixes |-> <<>>], [err |-> FALSE, Fixes |-> <<>>],
     [err |-> FALSE, Fixes |-> <<RunFix(0)>>]}
    \cup {[err |-> FALSE, Fixes |-> <<RunFix(0), RunFix(d)>>] : d \in RunDurations}

\* the path of the k-th discovered file
FileName(k) == <<"f">> \o NatToStr(k)

\* a track, a site collection and a list of summaries side by side
FramePoints == {P0, P1}
FrameRadii == {0, 1000}
FrameAltitudes == {1500, 3001}

(***************************************************************************)
(* State machine                                                           *)
(***************************************************************************)
Init ==
    /\ pc = "input"
    /\ fixes = <<>>
    /\ speedWindow = 0
    /\ stats = ZeroStatistics
    /\ sites = <<>>
    /\ query = P0
    /\ label = <<>>
    /\ flights = <<>>
    /\ templateData = EmptyTemplateData
    /\ opts = DefaultOptions
    /\ converted = ConvertedOf(RatZero, DefaultOptions)
    /\ sitesFile = [filename |-> <<>>, loaded |-> LoadError]
    /\ landingSites = <<>>
    /\ created = <<>>
    /\ files = <<>>
    /\ next = 0
    /\ processedCount = 0
    /\ aggregations = 0
    /\ exitCode = -1

\* the parser delivers one more B record (f.Fixes = igcData.BRecords); the
\* first record carries the base time
ParseBRecord(p, alt, step) ==
    /\ pc = "input"
    /\ fixes' = Append(fixes, [Lat |-> p[1], Lon |-> p[2], AltWGS84 |-> alt,
                               Time |-> IF fixes = <<>> THEN 0 ELSE fixes[Len(fixes)].Time + step])
    /\ UNCHANGED <<pc, speedWindow, stats, sites, query, label, flights, templateData,
                 unitVars, createVars, runVars>>

GetStatistics(w) ==
    /\ pc = "input"
    /\ pc' = "done"
    /\ speedWindow' = w
    /\ stats' = StatisticsOf(fixes, w)
    /\ UNCHANGED <<fixes, sites, query, label, flights, templateData,
                 unitVars, createVars, runVars>>

\* LoadLandingSites appends one valid row; orb.Point is <<lon, lat>>
LoadLandingSite(name, center, radius) ==
    /\ pc = "input"
    /\ sites' = Append(sites, [Name |-> name, Center |-> <<center[2], center[1]>>,
                               Radius |-> radius])
    /\ UNCHANGED <<pc, fixes, speedWindow, stats, query, label, flights, templateData,
                 unitVars, createVars, runVars>>

FindLandingSiteCall(p) ==
    /\ pc = "input"
    /\ pc' = "done"
    /\ query' = p
    /\ label' = FindLandingSite(sites, p[1], p[2])
    /\ UNCHANGED <<fixes, speedWindow, stats, sites, flights, templateData,
                 unitVars, createVars, runVars>>

\* allFlights = append(allFlights, data)
AppendFlight(data) ==
    /\ pc = "input"
    /\ flights' = Append(flights, data)
    /\ UNCHANGED <<pc, fixes, speedWindow, stats, sites, query, label, templateData,
                 unitVars, createVars, runVars>>

\* variant: the summaries are put in reverse order in place before they are
\* aggregated
CreateTemplateDataCallReversing ==
    /\ pc = "input"
    /\ pc' = "done"
    /\ flights' = [k \in 1..Len(flights) |-> flights[Len(flights) + 1 - k]]
    /\ \E up \in Orderings(UniqueKeys(flights).pilots),
          ug \in Orderings(UniqueKeys(flights).gliders),
          us \in Orderings(UniqueKeys(flights).sites) :
           templateData' = CreateTemplateData(flights', up, ug, us)
    /\ UNCHANGED <<fixes, speedWindow, stats, sites, query, label,
                 unitVars, createVars, runVars>>

CreateTemplateDataCall ==
    /\ pc = "input"
    /\ pc' = "done"
    /\ \E up \in Orderings(UniqueKeys(flights).pilots),
          ug \in Orderings(UniqueKeys(flights).gliders),
          us \in Orderings(UniqueKeys(flights).sites) :
           templateData' = CreateTemplateData(flights, up, ug, us)
    /\ UNCHANGED <<fixes, speedWindow, stats, sites, query, label, flights,
                 unitVars, createVars, runVars>>

\* statistics of short tracks
NextFlight ==
    \/ \E p \in FixPoints, alt \in FixAlts, step \in FixSteps :
           Len(fixes) < MaxFixes /\ ParseBRecord(p, alt, step)
    \/ \E w \in Windows : GetStatistics(w)

SpecFlight == Init /\ [][NextFlight]_vars

\* ground speed of tracks long enough for the smoothing window
NextWindow ==
    \/ \E p \in WindowPoints, alt \in WindowAlts, step \in WindowSteps :
           Len(fixes) < MaxWindowFixes /\ ParseBRecord(p, alt, step)
    \/ \E w \in WindowWindows : GetStatistics(w)

SpecWindow == Init /\ [][NextWindow]_vars

\* site resolution
NextSites ==
    \/ \E name \in SiteNames, center \in SiteCenters, radius \in SiteRadii :
           Len(sites) < MaxSites /\ LoadLandingSite(name, center, radius)
    \/ \E p \in QueryPoints : FindLandingSiteCall(p)

SpecSites == Init /\ [][NextSites]_vars

\* logbook aggregation
NextLogbook ==
    \/ \E profile \in DataProfiles, duration \in DurationStrings :
           Len(flights) < MaxFlights /\ AppendFlight(DataOf(profile, duration))
    \/ CreateTemplateDataCall

SpecLogbook == Init /\ [][NextLogbook]_vars

\* one value converted and labelled under one choice of the unit options
ConvertUnits(value, o) ==
    /\ pc = "input"
    /\ pc' = "done"
    /\ opts' = o
    /\ converted' = ConvertedOf(value, o)
    /\ UNCHANGED <<fixes, speedWindow, stats, sites, query, label, flights, templateData, createVars, runVars>>

NextUnits ==
    \E value \in UnitValues, a \in UnitStrings, sp \in UnitStrings, c \in UnitStrings :
        ConvertUnits(value, [AltitudeUnit |-> a, SpeedUnit |-> sp, ClimbUnit |-> c])

SpecUnits == Init /\ [][NextUnits]_vars

\* batches that differ in the MaxAltitude of their summaries only
NextAltitudes ==
    \/ \E alt \in SummaryAltitudes :
           Len(flights) < MaxFlights /\ AppendFlight(AltitudeData(alt))
    \/ CreateTemplateDataCall

SpecAltitudes == Init /\ [][NextAltitudes]_vars

\* landingSites, err := cli.LoadLandingSitesIfSpecified(logbookFlags.Sites),
\* before any file is parsed
LoadSitesCall(filename, loaded) ==
    /\ pc = "input"
    /\ fixes = <<>>
    /\ sitesFile' = [filename |-> filename, loaded |-> loaded]
    /\ landingSites' = LoadLandingSitesIfSpecified(filename, loaded)
    /\ UNCHANGED <<pc, fixes, speedWindow, stats, sites, query, label, flights, templateData,
                   unitVars, created, runVars>>

\* data := logbook.CreateData(flight, opts)
CreateDataCall ==
    /\ pc = "input"
    /\ pc' = "done"
    /\ created' = CreateData(FlightOf(fixes), OptionsOf(landingSites, opts, IGCFilename))
    /\ UNCHANGED <<fixes, speedWindow, stats, sites, query, label, flights, templateData,
                   unitVars, sitesFile, landingSites, runVars>>

\* one flight summarized, with or without a site collection
NextCreate ==
    \/ \E filename \in SitesFilenames, loaded \in LoadOutcomes : LoadSitesCall(filename, loaded)
    \/ \E p \in CreatePoints, alt \in CreateAlts, step \in CreateSteps :
           Len(fixes) < MaxFixes /\ ParseBRecord(p, alt, step)
    \/ CreateDataCall

SpecCreate == Init /\ [][NextCreate]_vars

\* cli.FindIGCFiles appends one more path to igcFiles; the outcome of parsing
\* the file is fixed with it
DiscoverFile(file) ==
    /\ pc = "input"
    /\ files' = Append(files, [Name |-> FileName(Len(files) + 1), err |-> file.err,
                               Fixes |-> file.Fixes])
    /\ UNCHANGED <<pc, fixes, speedWindow, stats, sites, query, label, flights, templateData,
                   unitVars, createVars, next, processedCount, aggregations, exitCode>>

\* FindIGCFiles has returned: if len(igcFiles) == 0 { os.Exit(1) }
FindIGCFilesDone ==
    /\ pc = "input"
    /\ pc' = IF Len(files) = 0 THEN "done" ELSE "loop"
    /\ exitCode' = IF Len(files) = 0 THEN 1 ELSE exitCode
    /\ UNCHANGED <<fixes, speedWindow, stats, sites, query, label, flights, templateData,
                   unitVars, createVars, files, next, processedCount, aggregations>>

\* variant: a file that does not parse ends the run
ProcessFileAbort ==
    /\ pc = "loop"
    /\ next < Len(files)
    /\ LET file == files[next + 1]
           data == CreateData(FlightOf(file.Fixes), OptionsOf(landingSites, opts, file.Name))
       IN  IF file.err
           THEN /\ pc' = "done"
                /\ exitCode' = 1
                /\ UNCHANGED <<flights, processedCount, next>>
           ELSE /\ next' = next + 1
                /\ flights' = IF data # <<>> THEN Append(flights, data[1]) ELSE flights
                /\ processedCount' = IF data # <<>> THEN processedCount + 1
                                      ELSE processedCount
                /\ UNCHANGED <<pc, exitCode>>
    /\ UNCHANGED <<fixes, speedWindow, stats, sites, query, label, templateData,
                   unitVars, createVars, files, aggregations>>

\* one iteration of  for _, filename := range igcFiles
ProcessFile ==
    /\ pc = "loop"
    /\ next < Len(files)
    /\ next' = next + 1
    /\ LET file == files[next + 1]
           data == CreateData(FlightOf(file.Fixes), OptionsOf(landingSites, opts, file.Name))
       IN  IF file.err
           THEN UNCHANGED <<flights, processedCount>>
           ELSE /\ flights' = IF data # <<>> THEN Append(flights, data[1]) ELSE flights
                /\ processedCount' = IF data # <<>> THEN processedCount + 1
                                      ELSE processedCount
    /\ UNCHANGED <<pc, fixes, speedWindow, stats, sites, query, label, templateData,
                   unitVars, createVars, files, aggregations, exitCode>>

\* if processedCount == 0 { os.Exit(1) }
ExitNoValidFlights ==
    /\ pc = "loop"
    /\ next = Len(files)
    /\ processedCount = 0
    /\ pc' = "done"
    /\ exitCode' = 1
    /\ UNCHANGED <<fixes, speedWindow, stats, sites, query, label, flights, templateData,
                   unitVars, createVars, files, next, processedCount, aggregations>>

\* variant: the summaries are aggregated as soon as there is one
AggregateEarly ==
    /\ pc = "loop"
    /\ processedCount # 0
    /\ \E up \in Orderings(UniqueKeys(flights).pilots),
          ug \in Orderings(UniqueKeys(flights).gliders),
          us \in Orderings(UniqueKeys(flights).sites) :
           templateData' = CreateTemplateData(flights, up, ug, us)
    /\ aggregations' = aggregations + 1
    /\ pc' = IF next = Len(files) THEN "done" ELSE pc
    /\ exitCode' = IF next = Len(files) THEN 0 ELSE exitCode
    /\ UNCHANGED <<fixes, speedWindow, stats, sites, query, label, flights,
                   unitVars, createVars, files, next, processedCount>>

\* templateData := logbook.CreateTemplateData(allFlights, ...) after the loop,
\* then the rendering
Aggregate ==
    /\ pc = "loop"
    /\ next = Len(files)
    /\ processedCount # 0
    /\ \E up \in Orderings(UniqueKeys(flights).pilots),
          ug \in Orderings(UniqueKeys(flights).gliders),
          us \in Orderings(UniqueKeys(flights).sites) :
           templateData' = CreateTemplateData(flights, up, ug, us)
    /\ aggregations' = aggregations + 1
    /\ pc' = "done"
    /\ exitCode' = 0
    /\ UNCHANGED <<fixes, speedWindow, stats, sites, query, label, flights,
                   unitVars, createVars, files, next, processedCount>>

\* one run of the logbook command
NextRun ==
    \/ \E file \in RunFiles : Len(files) < MaxFiles /\ DiscoverFile(file)
    \/ FindIGCFilesDone
    \/ ProcessFile
    \/ ExitNoValidFlights
    \/ Aggregate

SpecRun == Init /\ [][NextRun]_vars

\* the three computations next to each other's inputs
NextFrame ==
    \/ \E p \in FramePoints : Len(fixes) < MaxFrame /\ ParseBRecord(p, 495, 1000)
    \/ \E radius \in FrameRadii :
           Len(sites) < MaxFrame /\ LoadLandingSite(NearSite, P0, radius)
    \/ \E alt \in FrameAltitudes :
           Len(flights) < MaxFrame /\ AppendFlight(AltitudeData(alt))
    \/ GetStatistics(5000)
    \/ \E p \in FramePoints : FindLandingSiteCall(p)
    \/ CreateTemplateDataCall

SpecFrame == Init /\ [][NextFrame]_vars

(***************************************************************************)
(* Properties: flight statistics                                           *)
(***************************************************************************)
\* C1: for a flight with zero fixes GetStatistics, for any speed window,
\* returns MaxAltitude = MinAltitude = 0, MaxGroundSpeed = 0, MaxClimbRate = 0,
\* MaxDescentRate = 0 and FlightDuration = 0.
C1_EmptyFlightStatistics ==
    (pc = "done" /\ Len(fixes) = 0) =>
        /\ stats.MaxAltitude = 0
        /\ stats.MinAltitude = 0
        /\ stats.MaxGroundSpeed = <<0, 1>>
        /\ stats.MaxClimbRate = <<0, 1>>
        /\ stats.MaxDescentRate = <<0, 1>>
        /\ stats.FlightDuration = 0

C1_Witness == pc = "done" /\ Len(fixes) = 0 /\ speedWindow = 5000

\* the altitude of a fix in whole metres, truncated toward zero
TruncatedAltitude(fix) ==
    IF fix.AltWGS84 >= 0 THEN fix.AltWGS84 \div 10 ELSE -((-fix.AltWGS84) \div 10)

\* C2: for a flight with exactly one fix MaxAltitude and MinAltitude both equal
\* that fix's integer-truncated GPS altitude, and MaxGroundSpeed, MaxClimbRate,
\* MaxDescentRate and FlightDuration are 0, for any speed window.
C2_SingleFixStatistics ==
    (pc = "done" /\ Len(fixes) = 1) =>
        /\ stats.MaxAltitude = TruncatedAltitude(fixes[1])
        /\ stats.MinAltitude = TruncatedAltitude(fixes[1])
        /\ stats.MaxGroundSpeed = <<0, 1>>
        /\ stats.MaxClimbRate = <<0, 1>>
        /\ stats.MaxDescentRate = <<0, 1>>
        /\ stats.FlightDuration = 0

C2_Witness ==
    /\ pc = "done" /\ Len(fixes) = 1 /\ speedWindow = 5000
    /\ fixes[1].AltWGS84 = -505 /\ stats.MaxAltitude = -50 /\ stats.MinAltitude = -50

\* the pairs of the track the windowing block is entered for
WindowedPairs(w) ==
    {i \in 1..(Len(fixes) - 1) : ~PairSkipped(fixes, i) /\ WindowApplies(fixes, w, i)}

\* C3: for every smoothing window the speed CalculateMaxGroundSpeed uses for a
\* consecutive fix pair is never greater than the pair's instantaneous speed,
\* and the result for the window is never greater than the unwindowed result.
C3_WindowingMonotone ==
    pc = "done" =>
        /\ \A i \in 1..(Len(fixes) - 1) :
               ~PairSkipped(fixes, i) =>
                   RatLeq(PairSpeedKMH(fixes, speedWindow, i), InstantSpeedKMH(fixes, i))
        /\ RatLeq(stats.MaxGroundSpeed, CalculateMaxGroundSpeed(fixes, 0))

\* a track whose maximum the window lowers, with a second windowed pair whose
\* instantaneous speed stays in use
C3_Witness ==
    /\ pc = "done"
    /\ RatLess(stats.MaxGroundSpeed, CalculateMaxGroundSpeed(fixes, 0))
    /\ \E i \in WindowedPairs(speedWindow) :
           RatLess(PairSpeedKMH(fixes, speedWindow, i), InstantSpeedKMH(fixes, i))
    /\ \E i \in WindowedPairs(speedWindow) :
           PairSpeedKMH(fixes, speedWindow, i) = InstantSpeedKMH(fixes, i)

(***************************************************************************)
(* Properties: site resolution                                             *)
(***************************************************************************)
\* the distance from the query point to the centre of site k
QueryDistance(k) ==
    HaversineDistance(query[1], query[2], sites[k].Center[2], sites[k].Center[1])

\* the sites whose radius contains the query point
Containing == {k \in 1..Len(sites) : QueryDistance(k) <= sites[k].Radius}

\* the fallback strings of the query points: "45.814,6.246", "45.820,6.246",
\* "46.000,7.000", "-45.814,-6.247"
ExpectedFallback(p) ==
    CASE p = P0 -> <<"4", "5", ".", "8", "1", "4", ",", "6", ".", "2", "4", "6">>
      [] p = P3 -> <<"4", "5", ".", "8", "2", "0", ",", "6", ".", "2", "4", "6">>
      [] p = PFar -> <<"4", "6", ".", "0", "0", "0", ",", "7", ".", "0", "0", "0">>
      [] p = PNeg -> <<"-", "4", "5", ".", "8", "1", "4", ",", "-", "6", ".", "2", "4", "7">>

\* C4: FindLandingSite returns the name of the first site, in collection order,
\* whose distance from the query point is at or below its radius, also when a
\* later site's centre is closer.
C4_FirstMatchingSite ==
    (pc = "done" /\ Containing # {}) =>
        label = sites[CHOOSE k \in Containing : \A m \in Containing : k <= m].Name

C4_Witness ==
    /\ pc = "done" /\ Len(sites) = 2
    /\ Containing = {1, 2}
    /\ QueryDistance(2) < QueryDistance(1)
    /\ sites[1].Name # sites[2].Name
    /\ label = sites[1].Name

\* C5: FindLandingSite returns the coordinate fallback (latitude, then
\* longitude, 3 decimals each, comma-separated) exactly when no site's radius
\* contains the query point, and so for every query on an empty collection.
C5_FallbackIffNoSite ==
    pc = "done" =>
        /\ (label = ExpectedFallback(query)) <=> (Containing = {})
        /\ sites = <<>> => label = ExpectedFallback(query)

C5_Witness ==
    /\ pc = "done" /\ Len(sites) = 2 /\ Containing = {}
    /\ query = PNeg /\ label = ExpectedFallback(PNeg)

(***************************************************************************)
(* Properties: logbook aggregation                                         *)
(***************************************************************************)
\* the durations the model's FlightDuration strings stand for, in milliseconds
DurationParses(str) == str # DNoMinutes

DurationMeant(str) ==
    CASE str = D1h0m -> 3600000
      [] str = D2h30m -> 9000000
      [] str = D25h30m -> 91800000
      [] str = DNeg1h30m -> -5400000
      [] str = DNoMinutes -> 0

ParsedDurations == {k \in 1..Len(flights) : DurationParses(flights[k].FlightDuration)}

RECURSIVE SumMeant(_)
SumMeant(k) ==
    IF k = 0 THEN 0
    ELSE SumMeant(k - 1)
         + (IF k \in ParsedDurations THEN DurationMeant(flights[k].FlightDuration) ELSE 0)

DurationsAre(strs) ==
    /\ Len(flights) = Len(strs)
    /\ \A k \in 1..Len(strs) : flights[k].FlightDuration = strs[k]

\* C6: CreateTemplateData on an empty list returns TotalFlights = 0, an empty
\* Flights list and blank FirstDate and LastDate.
C6_EmptyBatch ==
    (pc = "done" /\ flights = <<>>) =>
        /\ templateData.TotalFlights = 0
        /\ templateData.Flights = <<>>
        /\ templateData.FirstDate = <<>>
        /\ templateData.LastDate = <<>>

C6_Witness == pc = "done" /\ flights = <<>> /\ templateData.TotalFlights = 0

\* C7: for a non-empty batch TotalTime is the "XhYm" rendering of the sum of
\* the durations parsed from the summaries' FlightDuration strings ("1h0m" and
\* "2h30m" give "3h30m").
C7_TotalTime ==
    (pc = "done" /\ flights # <<>>) =>
        /\ templateData.TotalTime = FormatDuration(SumMeant(Len(flights)))
        /\ DurationsAre(<<D1h0m, D2h30m>>) =>
               templateData.TotalTime = <<"3", "h", "3", "0", "m">>

C7_Witness ==
    /\ pc = "done" /\ DurationsAre(<<D1h0m, D2h30m>>)
    /\ templateData.TotalTime = <<"3", "h", "3", "0", "m">>

\* C8: for a non-empty batch AvgFlightTime is the rendering of the total parsed
\* duration divided by the number of summaries ("1h0m" and "2h30m" give
\* "1h45m").
C8_AvgFlightTime ==
    (pc = "done" /\ flights # <<>>) =>
        /\ templateData.AvgFlightTime =
               FormatDuration(GoDiv(SumMeant(Len(flights)), templateData.TotalFlights))
        /\ templateData.TotalFlights = Len(flights)
        /\ DurationsAre(<<D1h0m, D2h30m>>) =>
               templateData.AvgFlightTime = <<"1", "h", "4", "5", "m">>

\* a batch with a summary whose duration does not parse
C8_Witness ==
    /\ pc = "done" /\ DurationsAre(<<D1h0m, DNoMinutes, D2h30m>>)
    /\ templateData.AvgFlightTime = <<"1", "h", "1", "0", "m">>

\* C9: for a non-empty batch in which a FlightDuration parses, MinFlightTime is
\* the rendering of the minimum of the parsed durations, whatever their
\* magnitude.
C9_MinFlightTime ==
    (pc = "done" /\ ParsedDurations # {}) =>
        \E k \in ParsedDurations :
            /\ \A m \in ParsedDurations :
                   DurationMeant(flights[k].FlightDuration)
                       <= DurationMeant(flights[m].FlightDuration)
            /\ templateData.MinFlightTime
                   = FormatDuration(DurationMeant(flights[k].FlightDuration))

\* C10: for a non-empty batch in which a FlightDuration parses, MaxFlightTime
\* is the rendering of the maximum of the parsed durations.
C10_MaxFlightTime ==
    (pc = "done" /\ ParsedDurations # {}) =>
        \E k \in ParsedDurations :
            /\ \A m \in ParsedDurations :
                   DurationMeant(flights[k].FlightDuration)
                       >= DurationMeant(flights[m].FlightDuration)
            /\ templateData.MaxFlightTime
                   = FormatDuration(DurationMeant(flights[k].FlightDuration))

(***************************************************************************)
(* Properties: summaries the aggregation cannot parse                      *)
(***************************************************************************)
\* the batch without the summaries whose FlightDuration does not parse
RECURSIVE ParsedOnly(_)
ParsedOnly(fl) ==
    IF fl = <<>> THEN <<>>
    ELSE (IF DurationParses(Head(fl).FlightDuration) THEN <<Head(fl)>> ELSE <<>>)
         \o ParsedOnly(Tail(fl))

\* the duration aggregates of a batch
DurationAggregates(td) ==
    [TotalTime |-> td.TotalTime, MaxFlightTime |-> td.MaxFlightTime,
     MinFlightTime |-> td.MinFlightTime]

ZeroDuration == <<"0", "h", "0", "m">>

RECURSIVE SumMaxAltitude(_)
SumMaxAltitude(k) == IF k = 0 THEN 0 ELSE SumMaxAltitude(k - 1) + flights[k].MaxAltitude

\* q is s / n with the fraction dropped
IsTruncatedQuotient(q, s, n) ==
    IF s >= 0 THEN 0 <= s - q * n /\ s - q * n < n
    ELSE 0 <= q * n - s /\ q * n - s < n

Elements(seq) == {seq[k] : k \in 1..Len(seq)}

\* C11: a summary whose FlightDuration does not parse leaves TotalTime,
\* MaxFlightTime and MinFlightTime what they are without it, the aggregation
\* still completes, and the summary is counted in TotalFlights, in the
\* altitude aggregates and in the unique pilot, glider and site lists.
C11_UnparseableDuration ==
    (pc = "done" /\ ParsedDurations # 1..Len(flights)) =>
        /\ DurationAggregates(templateData)
               = IF ParsedDurations = {}
                 THEN [TotalTime |-> ZeroDuration, MaxFlightTime |-> ZeroDuration,
                       MinFlightTime |-> ZeroDuration]
                 ELSE DurationAggregates(
                          CreateTemplateData(ParsedOnly(flights), <<>>, <<>>, <<>>))
        /\ templateData.TotalFlights = Len(flights)
        /\ IsTruncatedQuotient(templateData.AvgMaxAltitude,
                               SumMaxAltitude(Len(flights)), Len(flights))
        /\ \A k \in (1..Len(flights)) \ ParsedDurations :
               /\ templateData.MaxAltitude >= flights[k].MaxAltitude
               /\ flights[k].Pilot # <<>> =>
                      flights[k].Pilot \in Elements(templateData.UniquePilots)
               /\ flights[k].GliderType # <<>> =>
                      flights[k].GliderType \in Elements(templateData.UniqueGliders)
               /\ flights[k].TakeoffSite # <<>> =>
                      flights[k].TakeoffSite \in Elements(templateData.UniqueSites)

\* "2h30m" flown by Bob and an unparseable "1h30" flown by Alice at 1500 m
C11_Witness ==
    /\ pc = "done" /\ DurationsAre(<<D2h30m, DNoMinutes>>)
    /\ flights[1].Pilot = Bob /\ flights[2].Pilot = Alice
    /\ templateData.TotalTime = <<"2", "h", "3", "0", "m">>
    /\ templateData.MinFlightTime = <<"2", "h", "3", "0", "m">>
    /\ templateData.MaxFlightTime = <<"2", "h", "3", "0", "m">>
    /\ templateData.TotalFlights = 2
    /\ templateData.AvgMaxAltitude = 2250
    /\ Alice \in Elements(templateData.UniquePilots)

DateParses(str) == str # Date20240230

\* the calendar order of the dates, as yyyymmdd
DateMeant(str) ==
    CASE str = Date20240115 -> 20240115
      [] str = Date20231231 -> 20231231
      [] str = Date20240230 -> 0

ParsedDates == {k \in 1..Len(flights) : DateParses(flights[k].Date)}

DatesAre(strs) ==
    /\ Len(flights) = Len(strs)
    /\ \A k \in 1..Len(strs) : flights[k].Date = strs[k]

\* C12: for a non-empty batch in which a Date parses, FirstDate and LastDate are
\* the earliest and the latest of the dates that parse, wherever the
\* unparseable summaries sit (position 0 included).
C12_DateRange ==
    (pc = "done" /\ ParsedDates # {}) =>
        \E a \in ParsedDates, b \in ParsedDates :
            /\ \A k \in ParsedDates :
                   /\ DateMeant(flights[a].Date) <= DateMeant(flights[k].Date)
                   /\ DateMeant(flights[k].Date) <= DateMeant(flights[b].Date)
            /\ templateData.FirstDate = flights[a].Date
            /\ templateData.LastDate = flights[b].Date

UniqueList(list, values) ==
    /\ Elements(list) = values \ {<<>>}
    /\ \A j, k \in 1..Len(list) : list[j] = list[k] => j = k

\* C13: UniquePilots, UniqueGliders and UniqueSites hold, as sets, exactly the
\* distinct non-empty Pilot, GliderType and TakeoffSite values of the batch:
\* no value twice, never the empty string, every non-empty value present.
C13_UniqueLists ==
    pc = "done" =>
        /\ UniqueList(templateData.UniquePilots,
                      {flights[k].Pilot : k \in 1..Len(flights)})
        /\ UniqueList(templateData.UniqueGliders,
                      {flights[k].GliderType : k \in 1..Len(flights)})
        /\ UniqueList(templateData.UniqueSites,
                      {flights[k].TakeoffSite : k \in 1..Len(flights)})

\* Alice twice and a summary without pilot, glider and site
C13_Witness ==
    /\ pc = "done" /\ Len(flights) = 3
    /\ flights[1].Pilot = Alice /\ flights[2].Pilot = <<>> /\ flights[3].Pilot = Alice
    /\ templateData.UniquePilots = <<Alice>>
    /\ templateData.UniqueGliders = <<Glider>>
    /\ templateData.UniqueSites = <<NearSite>>

(***************************************************************************)
(* Properties: altitude aggregates                                         *)
(***************************************************************************)
AltitudesAre(alts) ==
    /\ Len(flights) = Len(alts)
    /\ \A k \in 1..Len(alts) : flights[k].MaxAltitude = alts[k]

\* C14: for a non-empty batch the collection MaxAltitude is the maximum of the
\* summaries' MaxAltitude, also when every one of them is negative.
C14_MaxAltitude ==
    (pc = "done" /\ flights # <<>>) =>
        \E k \in 1..Len(flights) :
            /\ templateData.MaxAltitude = flights[k].MaxAltitude
            /\ \A j \in 1..Len(flights) : flights[j].MaxAltitude <= flights[k].MaxAltitude

\* C15: AvgMaxAltitude is the sum of the summaries' MaxAltitude divided by the
\* number of summaries, the fraction dropped (toward zero for negative sums
\* too).
C15_AvgMaxAltitude ==
    (pc = "done" /\ flights # <<>>) =>
        /\ IsTruncatedQuotient(templateData.AvgMaxAltitude,
                               SumMaxAltitude(Len(flights)), Len(flights))
        /\ AltitudesAre(<<3001, 1500>>) => templateData.AvgMaxAltitude = 2250
        /\ AltitudesAre(<<-305, -200>>) => templateData.AvgMaxAltitude = -252

\* -505 / 2 is -252, not -253
C15_Witness ==
    /\ pc = "done" /\ AltitudesAre(<<-305, -200>>)
    /\ templateData.AvgMaxAltitude = -252

(***************************************************************************)
(* Properties: rates, duration and altitude range of a track               *)
(***************************************************************************)
\* the consecutive pairs (fixes[i], fixes[i + 1]) at least one second apart
TimedPairs == {i \in 1..(Len(fixes) - 1) : fixes[i + 1].Time - fixes[i].Time >= 1000}

\* altitude gained over pair i per elapsed second, in m/s
ClimbOf(i) ==
    Rat((fixes[i + 1].AltWGS84 - fixes[i].AltWGS84) * 100,
        fixes[i + 1].Time - fixes[i].Time)

ClimbsAndZero == {ClimbOf(i) : i \in TimedPairs} \cup {<<0, 1>>}

FixesAre(alts, step) ==
    /\ Len(fixes) = Len(alts)
    /\ \A k \in 1..Len(alts) : fixes[k].AltWGS84 = alts[k]
    /\ \A k \in 1..(Len(alts) - 1) : fixes[k + 1].Time - fixes[k].Time = step

\* C16: CalculateVerticalSpeeds returns (maxClimb, minVerticalSpeed), maxClimb
\* the larger of 0 and the greatest altitude-delta / elapsed-time rate over the
\* consecutive pairs at least 1 s apart, minVerticalSpeed the smaller of 0 and
\* the least such rate; so maxClimb >= 0 >= minVerticalSpeed and MaxDescentRate
\* of GetStatistics is |minVerticalSpeed| >= 0 (deltas of +100 m and -50 m over
\* 10 s each give 10 m/s and 5 m/s).
C16_VerticalSpeeds ==
    pc = "done" =>
        LET maxClimb == CalculateVerticalSpeeds(fixes)[1]
            minVerticalSpeed == CalculateVerticalSpeeds(fixes)[2]
        IN  /\ maxClimb \in ClimbsAndZero
            /\ \A r \in ClimbsAndZero : r[1] * maxClimb[2] <= maxClimb[1] * r[2]
            /\ minVerticalSpeed \in ClimbsAndZero
            /\ \A r \in ClimbsAndZero :
                   minVerticalSpeed[1] * r[2] <= r[1] * minVerticalSpeed[2]
            /\ maxClimb[1] >= 0 /\ minVerticalSpeed[1] <= 0
            /\ stats.MaxClimbRate = maxClimb
            /\ stats.MaxDescentRate = <<-minVerticalSpeed[1], minVerticalSpeed[2]>>
            /\ stats.MaxDescentRate[1] >= 0
            /\ FixesAre(<<-505, 495, -5>>, 10000) =>
                   stats.MaxClimbRate = <<10, 1>> /\ stats.MaxDescentRate = <<5, 1>>

C16_Witness ==
    /\ pc = "done" /\ FixesAre(<<-505, 495, -5>>, 10000)
    /\ stats.MaxClimbRate = <<10, 1>> /\ stats.MaxDescentRate = <<5, 1>>

\* ground speed over pair i, in km/h
GroundSpeedOf(i) ==
    Rat(HaversineDistance(fixes[i].Lat, fixes[i].Lon, fixes[i + 1].Lat, fixes[i + 1].Lon)
            * 3600,
        fixes[i + 1].Time - fixes[i].Time)

GroundSpeedsAndZero == {GroundSpeedOf(i) : i \in TimedPairs} \cup {<<0, 1>>}

IsGreatest(r, rates) ==
    r \in rates /\ \A x \in rates : x[1] * r[2] <= r[1] * x[2]

IsLeast(r, rates) ==
    r \in rates /\ \A x \in rates : r[1] * x[2] <= x[1] * r[2]

\* C17: a consecutive pair less than 1 s apart (zero and negative elapsed time
\* included) never contributes to MaxGroundSpeed, MaxClimbRate or
\* MaxDescentRate: each is taken over the other pairs only, and a track whose
\* pairs are all less than 1 s apart has 0 for all three.  (Tracks of fewer
\* than six fixes: the smoothing window is not entered.)
C17_ShortPairsSkipped ==
    (pc = "done" /\ Len(fixes) <= 5) =>
        /\ IsGreatest(stats.MaxGroundSpeed, GroundSpeedsAndZero)
        /\ IsGreatest(stats.MaxClimbRate, ClimbsAndZero)
        /\ IsLeast(<<-stats.MaxDescentRate[1], stats.MaxDescentRate[2]>>, ClimbsAndZero)
        /\ TimedPairs = {} =>
               /\ stats.MaxGroundSpeed = <<0, 1>>
               /\ stats.MaxClimbRate = <<0, 1>>
               /\ stats.MaxDescentRate = <<0, 1>>

\* a track that moves and climbs over pairs 500 ms and -1 s apart
C17_Witness ==
    /\ pc = "done" /\ Len(fixes) = 3
    /\ fixes[2].Time - fixes[1].Time = 500 /\ fixes[3].Time - fixes[2].Time = -1000
    /\ <<fixes[1].Lat, fixes[1].Lon>> = P0 /\ <<fixes[2].Lat, fixes[2].Lon>> = P1
    /\ <<fixes[3].Lat, fixes[3].Lon>> = P0
    /\ fixes[1].AltWGS84 = -505 /\ fixes[2].AltWGS84 = 495 /\ fixes[3].AltWGS84 = -5
    /\ stats.MaxGroundSpeed = <<0, 1>>
    /\ stats.MaxClimbRate = <<0, 1>>
    /\ stats.MaxDescentRate = <<0, 1>>

\* C18: FlightDuration is the time of the last fix minus the time of the first
\* fix when the track has at least two fixes and 0 when it has fewer; the
\* fixes in between do not matter.
C18_FlightDuration ==
    pc = "done" =>
        stats.FlightDuration
            = IF Len(fixes) >= 2 THEN fixes[Len(fixes)].Time - fixes[1].Time ELSE 0

\* 10 s forward, then 1 s back
C18_Witness ==
    /\ pc = "done" /\ Len(fixes) = 3
    /\ fixes[1].Time = 0 /\ fixes[2].Time = 10000 /\ fixes[3].Time = 9000
    /\ stats.FlightDuration = 9000

TruncatedAltitudes == {TruncatedAltitude(fixes[k]) : k \in 1..Len(fixes)}

\* C19: for a non-empty track CalculateMaxAltitude and CalculateMinAltitude are
\* the maximum and the minimum of the integer-truncated GPS altitudes of all
\* fixes (also when all are negative), each attained by some fix, and
\* MinAltitude <= MaxAltitude; the 0 of the empty track is not a starting
\* value of the scan.
C19_AltitudeRange ==
    (pc = "done" /\ Len(fixes) > 0) =>
        /\ stats.MaxAltitude \in TruncatedAltitudes
        /\ \A a \in TruncatedAltitudes : a <= stats.MaxAltitude
        /\ stats.MinAltitude \in TruncatedAltitudes
        /\ \A a \in TruncatedAltitudes : stats.MinAltitude <= a
        /\ stats.MinAltitude <= stats.MaxAltitude
        /\ stats.MaxAltitude = CalculateMaxAltitude(fixes)
        /\ stats.MinAltitude = CalculateMinAltitude(fixes)

\* every fix below zero: the maximum is -50, not 0
C19_Witness ==
    /\ pc = "done" /\ Len(fixes) = 3
    /\ \A k \in 1..3 : fixes[k].AltWGS84 = -505
    /\ stats.MaxAltitude = -50 /\ stats.MinAltitude = -50

(***************************************************************************)
(* Properties: units                                                       *)
(***************************************************************************)
\* C20: for every unit string outside the recognized set, Altitude, Speed and
\* Climb return their input unchanged, and AltitudeSymbol, SpeedSymbol and
\* ClimbSymbol return "m", "km/h" and "m/s".
C20_UnknownUnitFallback ==
    pc = "done" =>
        /\ opts.AltitudeUnit \notin {<<"m">>, <<"f", "t">>} =>
               /\ converted.Altitude = converted.value
               /\ converted.AltitudeSymbol = <<"m">>
        /\ opts.SpeedUnit \notin {<<"k", "m", "h">>, <<"m", "p", "h">>,
                                  <<"k", "t", "s">>, <<"m", "s">>} =>
               /\ converted.Speed = converted.value
               /\ converted.SpeedSymbol = <<"k", "m", "/", "h">>
        /\ opts.ClimbUnit \notin {<<"m", "s">>, <<"f", "p", "m">>} =>
               /\ converted.Climb = converted.value
               /\ converted.ClimbSymbol = <<"m", "/", "s">>

\* "unknown" for the altitude, "" for the speed, "ft" for the climb rate
C20_Witness ==
    /\ pc = "done"
    /\ opts = [AltitudeUnit |-> UnknownUnit, SpeedUnit |-> <<>>, ClimbUnit |-> AltitudeFeet]
    /\ converted.value = <<100, 1>>
    /\ converted.Altitude = <<100, 1>> /\ converted.AltitudeSymbol = <<"m">>
    /\ converted.Speed = <<100, 1>> /\ converted.SpeedSymbol = <<"k", "m", "/", "h">>
    /\ converted.Climb = <<100, 1>> /\ converted.ClimbSymbol = <<"m", "/", "s">>

(***************************************************************************)
(* Properties: distance of coincident points                               *)
(***************************************************************************)
ModelPoints == {P0, P1, P2, P3, PFar, PNeg}

\* the sites whose centre is the query point
CentredOnQuery == {k \in 1..Len(sites) : <<sites[k].Center[2], sites[k].Center[1]>> = query}

Elapsed(j, i) == fixes[i].Time - fixes[j].Time

\* the speed from fix j to fix i in km/h
SpeedBetween(j, i) ==
    Rat(HaversineDistance(fixes[j].Lat, fixes[j].Lon, fixes[i].Lat, fixes[i].Lon) * 3600,
        Elapsed(j, i))

\* the pairs (fixes[i], fixes[i + 1]) the smoothing window is applied to: the
\* pair ends at the 0-based fix index i, which must be at least 5
Smoothed(w) == {i \in TimedPairs : Elapsed(i, i + 1) < w /\ i >= 5}

PositionsAre(points) ==
    /\ Len(fixes) = Len(points)
    /\ \A k \in 1..Len(points) : <<fixes[k].Lat, fixes[k].Lon>> = points[k]

\* C24: the wider-window recomputation is applied to the pair ending at fix
\* index i (0-based) only when the pair's elapsed time is shorter than the
\* window and i >= 5; so for a track of at most 5 fixes, and for any pair at
\* least the window apart, the speed is the instantaneous one whatever the
\* window.
C24_WindowingCondition ==
    pc = "done" =>
        /\ \A i \in TimedPairs \ Smoothed(speedWindow) :
               PairSpeedKMH(fixes, speedWindow, i) = SpeedBetween(i, i + 1)
        /\ (Len(fixes) <= 5 \/ \A i \in TimedPairs : Elapsed(i, i + 1) >= speedWindow) =>
               IsGreatest(stats.MaxGroundSpeed,
                          {SpeedBetween(i, i + 1) : i \in TimedPairs} \cup {<<0, 1>>})

\* five fixes 1 s apart, the last one 111 m away: 399.6 km/h, although the
\* fix 3 s back would give 133.2 km/h
C24_Witness ==
    /\ pc = "done" /\ speedWindow = 3000
    /\ PositionsAre(<<P0, P0, P0, P0, P1>>)
    /\ \A i \in 1..4 : Elapsed(i, i + 1) = 1000
    /\ stats.MaxGroundSpeed = <<1998, 5>>

\* the prior fixes at least the window before fix i + 1
Reaching(w, i) == {j \in 1..i : Elapsed(j, i + 1) >= w}

MostRecent(S) == CHOOSE j \in S : \A k \in S : k <= j

RatMin(a, b) == IF a[1] * b[2] <= b[1] * a[2] THEN a ELSE b

\* the speed of a smoothed pair
SmoothedSpeed(w, i) ==
    IF Reaching(w, i) = {} THEN SpeedBetween(i, i + 1)
    ELSE RatMin(SpeedBetween(i, i + 1), SpeedBetween(MostRecent(Reaching(w, i)), i + 1))

\* C25: when windowing applies to a fix, the backward search takes the most
\* recent prior fix whose elapsed time to the current fix is >= the window and
\* only that one; the pair's speed becomes the smaller of the instantaneous
\* speed and the speed from that fix.  If no prior fix reaches the window the
\* instantaneous speed is kept.
C25_BackwardSearch ==
    pc = "done" =>
        /\ \A i \in Smoothed(speedWindow) :
               PairSpeedKMH(fixes, speedWindow, i) = SmoothedSpeed(speedWindow, i)
        /\ IsGreatest(stats.MaxGroundSpeed,
                      {SmoothedSpeed(speedWindow, i) : i \in Smoothed(speedWindow)}
                          \cup {SpeedBetween(i, i + 1) : i \in TimedPairs \ Smoothed(speedWindow)}
                          \cup {<<0, 1>>})

\* seven fixes 1 s apart under a 6 s window: no fix reaches the window for
\* fix 5, fix 0 does for fix 6 and lowers its speed, and an older fix than
\* the one used would give a different speed
C25_Witness ==
    /\ pc = "done" /\ speedWindow = 6000 /\ Len(fixes) = 7
    /\ \A i \in 1..6 : Elapsed(i, i + 1) = 1000
    /\ Smoothed(speedWindow) = {5, 6}
    /\ Reaching(speedWindow, 5) = {}
    /\ PairSpeedKMH(fixes, speedWindow, 5) = SpeedBetween(5, 6)
    /\ Reaching(speedWindow, 6) = {1}
    /\ RatLess(PairSpeedKMH(fixes, speedWindow, 6), SpeedBetween(6, 7))

(***************************************************************************)
(* Properties: order of the reported date range                            *)
(***************************************************************************)
\* a rendered date "yyyy-mm-dd" as the number yyyymmdd
DateNumber(str) ==
    LET digit(k) == CHOOSE d \in 0..9 : DigitChars[d + 1] = str[k]
    IN  (digit(1) * 1000 + digit(2) * 100 + digit(3) * 10 + digit(4)) * 10000
        + (digit(6) * 10 + digit(7)) * 100 + digit(9) * 10 + digit(10)

\* C28: for every non-empty batch, whether or not the date strings parse, the
\* reported FirstDate is never later than the reported LastDate.
C28_DateRangeOrdered ==
    (pc = "done" /\ flights # <<>>) =>
        DateNumber(templateData.FirstDate) <= DateNumber(templateData.LastDate)

\* an unparseable date first, then two dates in descending order
C28_Witness ==
    /\ pc = "done" /\ DatesAre(<<Date20240230, Date20240115, Date20231231>>)
    /\ DateNumber(templateData.FirstDate) < DateNumber(templateData.LastDate)
    /\ templateData.LastDate = Date20240115

(***************************************************************************)
(* Properties: CreateData                                                  *)
(***************************************************************************)
PointOf(fix) == <<fix.Lat, fix.Lon>>

\* the site label of a point of CreatePoints under the loaded rows: P0 is
\* inside the site of NearRow, P3 is 667 m from its centre
ExpectedLabel(p) ==
    IF landingSites # <<>> /\ p = P0 THEN NearSite ELSE ExpectedFallback(p)

\* C21: CreateData returns nil exactly when the flight has zero fixes; for a
\* flight with at least one fix the takeoff fields come from the first fix and
\* the landing fields from the last fix (the same fix when there is one).
C21_CreateDataNilIffNoFixes ==
    pc = "done" =>
        /\ (created = <<>>) <=> (Len(fixes) = 0)
        /\ Len(fixes) > 0 =>
               LET first == fixes[1]
                   last == fixes[Len(fixes)]
                   d == created[1]
               IN  /\ d.TakeoffLat = first.Lat /\ d.TakeoffLon = first.Lon
                   /\ d.TakeoffPosition = ExpectedFallback(PointOf(first))
                   /\ d.TakeoffSite = ExpectedLabel(PointOf(first))
                   /\ d.TakeoffAlt = TruncatedAltitude(first)
                   /\ d.TakeoffTime = <<"0", "0", ":", "0", "0", ":", "0", "0">>
                   /\ d.LandingLat = last.Lat /\ d.LandingLon = last.Lon
                   /\ d.LandingPosition = ExpectedFallback(PointOf(last))
                   /\ d.LandingSite = ExpectedLabel(PointOf(last))
                   /\ d.LandingAlt = TruncatedAltitude(last)
                   /\ last.Time = 91000 =>
                          d.LandingTime = <<"0", "0", ":", "0", "1", ":", "3", "1">>
                   /\ Len(fixes) = 1 =>
                          /\ d.LandingPosition = d.TakeoffPosition
                          /\ d.LandingAlt = d.TakeoffAlt
                          /\ d.LandingTime = d.TakeoffTime

\* three fixes: takeoff inside the site at -50 m, landing outside it at 49 m
\* 91 s later
C21_Witness ==
    /\ pc = "done" /\ Len(fixes) = 3 /\ landingSites # <<>>
    /\ PointOf(fixes[1]) = P0 /\ PointOf(fixes[2]) = P3 /\ PointOf(fixes[3]) = P3
    /\ fixes[1].AltWGS84 = -505 /\ fixes[2].AltWGS84 = -505 /\ fixes[3].AltWGS84 = 495
    /\ fixes[3].Time = 91000
    /\ created # <<>>
    /\ created[1].TakeoffSite = NearSite /\ created[1].TakeoffAlt = -50
    /\ created[1].LandingSite = ExpectedFallback(P3) /\ created[1].LandingAlt = 49
    /\ created[1].LandingTime = <<"0", "0", ":", "0", "1", ":", "3", "1">>

\* C30: LoadLandingSitesIfSpecified returns a nil collection when the filename
\* is empty, the file cannot be loaded or it holds zero valid sites, and a
\* collection otherwise; CreateData with a nil collection sets TakeoffSite to
\* TakeoffPosition and LandingSite to LandingPosition, the 3-decimal
\* coordinate strings.
C30_NilCollectionFallback ==
    /\ (landingSites = <<>>)
           <=> \/ sitesFile.filename = <<>>
               \/ sitesFile.loaded.err
               \/ sitesFile.loaded.Sites = <<>>
    /\ (pc = "done" /\ landingSites = <<>> /\ Len(fixes) > 0) =>
           /\ created[1].TakeoffSite = created[1].TakeoffPosition
           /\ created[1].LandingSite = created[1].LandingPosition
           /\ created[1].TakeoffSite = ExpectedFallback(PointOf(fixes[1]))
           /\ created[1].LandingSite = ExpectedFallback(PointOf(fixes[Len(fixes)]))

\* a sites file without a valid row, and a flight from P0 to P3
C30_Witness ==
    /\ pc = "done" /\ Len(fixes) = 2
    /\ sitesFile = [filename |-> SitesFilename, loaded |-> Loaded(<<>>)]
    /\ landingSites = <<>>
    /\ PointOf(fixes[1]) = P0 /\ PointOf(fixes[2]) = P3
    /\ created[1].TakeoffSite = ExpectedFallback(P0)
    /\ created[1].LandingSite = ExpectedFallback(P3)

(***************************************************************************)
(* Properties: one run of the logbook command                              *)
(***************************************************************************)
\* the files among the first n that parse and hold at least one B record
Producing(n) == {k \in 1..n : ~files[k].err /\ Len(files[k].Fixes) > 0}

\* the j-th of them
NthProducing(j) ==
    CHOOSE k \in Producing(Len(files)) : Cardinality(Producing(k)) = j

\* fl holds one summary per producing file among the first n, in file order
SummariesOfFirst(fl, n) ==
    /\ Len(fl) = Cardinality(Producing(n))
    /\ \A j \in 1..Len(fl) : fl[j].Filename = FileName(NthProducing(j))

\* C23: in one run of the logbook command CreateTemplateData is called once,
\* only after every discovered file has been through the loop, with the
\* complete list of summaries in file-discovery order; no step aggregates a
\* partial list, and no file is discovered or summarized after the call.  (A
\* run that ends with an error before the call makes no call, see C27.)
C23_AggregatedOnce ==
    [][/\ aggregations' # aggregations =>
              /\ aggregations = 0 /\ aggregations' = 1
              /\ next = Len(files)
              /\ files' = files /\ flights' = flights
              /\ templateData'.Flights = flights
              /\ SummariesOfFirst(templateData'.Flights, Len(files))
       /\ templateData' # templateData => aggregations' # aggregations
       /\ files' # files => pc = "input" /\ aggregations = 0
       /\ flights' # flights => aggregations = 0
       /\ (pc' = "done" /\ exitCode' = 0) => aggregations' = 1
       /\ aggregations' = 1 => pc' = "done"]_vars

\* three files of 1 min, 1 h 30 min and 25 h 30 min aggregated in that order
C23_Witness ==
    /\ pc = "done" /\ exitCode = 0 /\ aggregations = 1
    /\ Len(files) = 3 /\ next = 3
    /\ Len(templateData.Flights) = 3
    /\ templateData.Flights[1].Filename = <<"f", "1">>
    /\ templateData.Flights[1].FlightDuration = <<"0", "h", "1", "m">>
    /\ templateData.Flights[2].Filename = <<"f", "2">>
    /\ templateData.Flights[2].FlightDuration = <<"1", "h", "3", "0", "m">>
    /\ templateData.Flights[3].Filename = <<"f", "3">>
    /\ templateData.Flights[3].FlightDuration = <<"2", "5", "h", "3", "0", "m">>

\* last fix time minus first fix time of file k
RawDuration(k) == files[k].Fixes[Len(files[k].Fixes)].Time - files[k].Fixes[1].Time

TruncatedToMinute(d) == d - (d % 60000)

RECURSIVE SumTruncated(_)
SumTruncated(k) ==
    IF k = 0 THEN 0
    ELSE SumTruncated(k - 1)
         + (IF k \in Producing(k) THEN TruncatedToMinute(RawDuration(k)) ELSE 0)

RECURSIVE SumRaw(_)
SumRaw(k) ==
    IF k = 0 THEN 0
    ELSE SumRaw(k - 1) + (IF k \in Producing(k) THEN RawDuration(k) ELSE 0)

\* C26: for every non-negative duration d, parseDuration(FormatDuration(d))
\* succeeds and is d truncated down to whole minutes; so each summary's
\* FlightDuration parses to the truncated duration of its flight, and TotalTime
\* is the sum of the truncated durations.
C26_DurationRoundTrip ==
    /\ \A d \in RunDurations \cup {0} :
           parseDuration(FormatDuration(d)) = [err |-> FALSE, d |-> TruncatedToMinute(d)]
    /\ \A j \in 1..Len(flights) :
           parseDuration(flights[j].FlightDuration)
               = [err |-> FALSE, d |-> TruncatedToMinute(RawDuration(NthProducing(j)))]
    /\ (pc = "done" /\ exitCode = 0) =>
           parseDuration(templateData.TotalTime)
               = [err |-> FALSE, d |-> SumTruncated(Len(files))]

\* two flights of 90 s: TotalTime is 2 min, the truncation of the sum is 3 min
C26_Witness ==
    /\ pc = "done" /\ exitCode = 0
    /\ Len(files) = 2 /\ Producing(2) = {1, 2}
    /\ RawDuration(1) = 90000 /\ RawDuration(2) = 90000
    /\ templateData.TotalTime = <<"0", "h", "2", "m">>
    /\ TruncatedToMinute(SumRaw(2)) = 180000

InputsUnchanged == fixes' = fixes /\ sites' = sites /\ flights' = flights

\* C29: CreateTemplateData modifies no input summary, the result's Flights is
\* the input sequence with the same elements in the same order and
\* TotalFlights is its length; GetStatistics and FindLandingSite modify
\* neither the fixes nor the site collection.
C29_InputsUnchanged ==
    [][/\ CreateTemplateDataCall =>
              /\ InputsUnchanged
              /\ templateData'.TotalFlights = Len(flights)
              /\ Len(templateData'.Flights) = Len(flights)
              /\ \A k \in 1..Len(flights) : templateData'.Flights[k] = flights[k]
       /\ GetStatistics(5000) => InputsUnchanged
       /\ (\E p \in FramePoints : FindLandingSiteCall(p)) => InputsUnchanged]_vars

\* two different summaries aggregated next to a track and a site
C29_Witness ==
    /\ pc = "done"
    /\ Len(fixes) = 2 /\ Len(sites) = 1
    /\ flights = <<AltitudeData(3001), AltitudeData(1500)>>
    /\ templateData.TotalFlights = 2
    /\ templateData.Flights = <<AltitudeData(3001), AltitudeData(1500)>>
    /\ templateData.MaxAltitude = 3001

====
